---- MODULE Spec2Model ----
(***************************************************************************)
(* mne/datasets/eegbci/eegbci.py: load_data (fetch and cache EEGBCI files)  *)
(* and standardize (channel renaming).  Strings are sequences of            *)
(* one-character strings, so that formatting, joining and pattern matching  *)
(* are computed character by character.                                     *)
(***************************************************************************)
EXTENDS Integers, Sequences, FiniteSets, TLC

\* Python's None: where a string is expected, where match.groups() is
\* expected, and as the value of update_path
NoPath == <<>>
NoMatch == <<>>
None == "None"

\* ---------------------------------------------------------------- bounds
\* longest list of runs passed to load_data
MaxRuns == 2
\* number of load_data calls in one behaviour: one call, then repeats of it
MaxCalls == 2
\* longest channel list passed to standardize
MaxCh == 2

\* ---------------------------------------------------------------- strings
Digit == {"0", "1", "2", "3", "4", "5", "6", "7", "8", "9"}
DigitChar == <<"0", "1", "2", "3", "4", "5", "6", "7", "8", "9">>
Sep == "/"

\* s[i..] starts with lit
StartsAt(s, i, lit) ==
    /\ i >= 1
    /\ i + Len(lit) - 1 <= Len(s)
    /\ SubSeq(s, i, i + Len(lit) - 1) = lit

\* str.startswith / str.endswith
StartsWith(s, lit) == StartsAt(s, 1, lit)
EndsWith(s, lit) == StartsAt(s, Len(s) - Len(lit) + 1, lit)

\* ---------------------------------------------------------------- load_data: constants
EEGMI_URL == <<"h", "t", "t", "p", "s", ":", "/", "/", "p", "h", "y", "s", "i", "o", "n", "e", "t", ".", "o", "r", "g", "/", "f", "i", "l", "e", "s", "/", "e", "e", "g", "m", "m", "i", "d", "b", "/", "1", ".", "0", ".", "0", "/">>
Folder == <<"M", "N", "E", "-", "e", "e", "g", "b", "c", "i", "-", "d", "a", "t", "a">>
\* default of _get_path: <home>/mne_data
DefaultPath == <<"/", "h", "/", "m", "n", "e", "_", "d", "a", "t", "a">>
RetryIfFailedMut == 2 + 1
RetryIfFailed == 2

\* ---------------------------------------------------------------- the pattern
\* r'(?:https?://.*)(files)/(eegmmidb)/(\d+\.\d+\.\d+)/?' with re.match:
\* anchored at the start of the string, not at its end.

\* https?:// : the position after it, 0 when it does not match
SchemeEndMut(s) == 1
SchemeEnd(s) ==
    IF ~StartsAt(s, 1, <<"h", "t", "t", "p">>) THEN 0
    ELSE IF StartsAt(s, 5, <<"s", ":", "/", "/">>) THEN 9
    ELSE IF StartsAt(s, 5, <<":", "/", "/">>) THEN 8
    ELSE 0

RECURSIVE DigitsEnd(_, _)
\* \d+ (greedy): the position after the longest run of digits from i
DigitsEnd(s, i) ==
    IF i <= Len(s) /\ s[i] \in Digit THEN DigitsEnd(s, i + 1) ELSE i

\* \d+\.\d+\.\d+ at i: the position after it, 0 when it does not match
VersionEnd(s, i) ==
    LET e1 == DigitsEnd(s, i)
        e2 == DigitsEnd(s, e1 + 1)
        e3 == DigitsEnd(s, e2 + 1)
    IN  IF /\ e1 > i
           /\ e1 <= Len(s) /\ s[e1] = "."
           /\ e2 > e1 + 1
           /\ e2 <= Len(s) /\ s[e2] = "."
           /\ e3 > e2 + 1
        THEN e3 ELSE 0

\* (files)/(eegmmidb)/(\d+\.\d+\.\d+)/? at k: the groups, or NoMatch
TailAt(s, k) ==
    LET lit == <<"f", "i", "l", "e", "s", "/", "e", "e", "g", "m", "m", "i", "d", "b", "/">>
        v   == k + Len(lit)
        e   == VersionEnd(s, v)
    IN  IF StartsAt(s, k, lit) /\ e > 0
        THEN << <<"f", "i", "l", "e", "s">>, <<"e", "e", "g", "m", "m", "i", "d", "b">>, SubSeq(s, v, e - 1) >>
        ELSE NoMatch

RECURSIVE Greedy(_, _, _)
\* .* (greedy, backtracking): the rightmost k >= p where the tail matches
Greedy(s, k, p) ==
    IF k < p THEN NoMatch
    ELSE IF TailAt(s, k) # NoMatch THEN TailAt(s, k)
    ELSE Greedy(s, k - 1, p)

\* re.compile(pattern).match(base_url): match.groups(), or NoMatch
ReMatch(url) ==
    LET p == SchemeEnd(url)
    IN  IF p = 0 THEN NoMatch ELSE Greedy(url, Len(url) + 1, p)

\* ---------------------------------------------------------------- paths
\* op.join(a, b)
Join2(a, b) ==
    IF StartsWith(b, <<Sep>>) THEN b
    ELSE IF a = <<>> \/ EndsWith(a, <<Sep>>) THEN a \o b
    ELSE a \o <<Sep>> \o b

RECURSIVE JoinAll(_, _)
\* op.join(a, *parts)
JoinAll(a, parts) ==
    IF parts = <<>> THEN a ELSE JoinAll(Join2(a, Head(parts)), Tail(parts))

\* op.join(path, folder, *match.groups())
BasePathMut(p, groups) == JoinAll(p, <<Folder>> \o Tail(groups))
BasePath(p, groups) == JoinAll(p, <<Folder>> \o groups)

RECURSIVE Dec(_)
\* decimal digits of n >= 0
Dec(n) == IF n < 10 THEN <<DigitChar[n + 1]>>
          ELSE Dec(n \div 10) \o <<DigitChar[(n % 10) + 1]>>

RECURSIVE ZeroPad(_, _)
ZeroPad(s, w) == IF Len(s) >= w THEN s ELSE ZeroPad(<<"0">> \o s, w)

\* format(n, '0<w>d')
FmtMut(n, w) == Dec(n)
Fmt(n, w) == ZeroPad(Dec(n), w)

\* f'S{subject:03d}/S{subject:03d}R{run:02d}.edf'
FilePart(s, r) ==
    <<"S">> \o Fmt(s, 3) \o <<"/", "S">> \o Fmt(s, 3) \o <<"R">> \o Fmt(r, 2) \o <<".", "e", "d", "f">>

\* runs = [runs] unless it is iterable
AsList(r) == IF r.iter THEN r.val ELSE <<r.val>>

\* _get_path(path, key, name)
GetPath(p, cfg) ==
    IF p # NoPath THEN p
    ELSE IF cfg # NoPath THEN cfg
    ELSE DefaultPath

\* the path handed to _do_path_update
PersistArgMut(p, bp) == bp
PersistArg(p, bp) == p

\* force_update and op.isfile(destination)
ShouldRemoveNever(force, isfile) == FALSE
ShouldRemoveAlways(force, isfile) == isfile
ShouldRemove(force, isfile) == force /\ isfile

\* ---------------------------------------------------------------- inputs
Subjects == {1, 109}
RunIds == {4, 14}
RunLists == UNION {[1..k -> RunIds] : k \in 0..MaxRuns}
RunsArgs == {[iter |-> FALSE, val |-> r] : r \in RunIds}
            \cup {[iter |-> TRUE, val |-> l] : l \in RunLists}
PathArgs == {NoPath, <<"/", "a">>}
UpdateArgs == {"True", "False", None}
GoodUrls == {EEGMI_URL,
             <<"h", "t", "t", "p", ":", "/", "/", "h", "/", "f", "i", "l", "e", "s", "/", "e", "e", "g", "m", "m", "i", "d", "b", "/", "1", ".", "0", ".", "0", "/", "f", "i", "l", "e", "s", "/", "e", "e", "g", "m", "m", "i", "d", "b", "/", "2", ".", "1", "0", ".", "3", "/", "x">>}
BadUrls == {<<"f", "t", "p", ":", "/", "/", "h", "/", "f", "i", "l", "e", "s", "/", "e", "e", "g", "m", "m", "i", "d", "b", "/", "1", ".", "0", ".", "0", "/">>,
            <<"h", "t", "t", "p", "s", ":", "/", "/", "h", "/", "f", "i", "l", "e", "s", "/", "e", "e", "g", "m", "m", "i", "d", "b", "/", "1", ".", "0", "/">>,
            <<"h", "t", "t", "p", "s", ":", "/", "/", "h", "/", "f", "i", "l", "e", "s", "/", "e", "e", "g", "b", "c", "i", "/", "1", ".", "0", ".", "0", "/">>,
            <<"h", "t", "t", "p", "s", ":", "/", "h", "/", "f", "i", "l", "e", "s", "/", "e", "e", "g", "m", "m", "i", "d", "b", "/", "1", ".", "0", ".", "0", "/">>,
            <<"h", "t", "t", "p", "s", ":", "/", "/", "h", "/", "e", "e", "g", "m", "m", "i", "d", "b", "/", "1", ".", "0", ".", "0", "/">>}
Urls == GoodUrls \cup BadUrls
Outcomes == {"ok", "fail", "mismatch"}
Answers == {"y", "n"}

\* ---------------------------------------------------------------- state
VARIABLES
    pc,           \* position in load_data: idle, for, fetch, update, returned, raised
    ncalls,       \* calls of load_data so far
    config,       \* the configuration store's value under MNE_DATASETS_EEGBCI_PATH
    disk,         \* the files on disk: ok (checksum-valid) and bad (not)
    runs_arg, subject, runs, path_arg, path, force_update, update_path, base_url,
    base_path,    \* local cache directory
    fetcher,      \* the pooch fetcher
    data_paths, idx, destination,
    existed,      \* op.isfile(destination) at line 190
    attempts,     \* download attempts of the current fetch
    trace,        \* file operations of the current call, in order
    nupdates,     \* calls of _do_path_update in the current call
    cfg_prev,     \* config before the latest _do_path_update
    wrote,        \* the latest _do_path_update called set_config
    answer,       \* the user's answer to the latest prompt
    disk0,        \* disk when the current call began
    result, err,
    repeat,       \* the current call repeats the previous one
    prev_result,
    ch_names,     \* raw.ch_names
    ch_in,        \* raw.ch_names when standardize was called
    rename,       \* the mapping standardize builds
    std_done      \* no, renamed, collision

callvars == <<runs_arg, subject, runs, path_arg, path, force_update, update_path,
              base_url, base_path, fetcher, data_paths, idx, destination, existed,
              attempts, trace, nupdates, cfg_prev, wrote, answer, disk0, result,
              err, repeat, prev_result>>
stdvars == <<ch_names, ch_in, rename, std_done>>
vars == <<pc, ncalls, config, disk, callvars, stdvars>>

NoFetcher == [created |-> FALSE, path |-> NoPath, base_url |-> NoPath,
              retry_if_failed |-> 0, registry |-> FALSE]

isfile(d, p) == p \in d.ok \cup d.bad

\* a file that earlier sessions may have left in the cache, checksum-valid or not
CachedBefore == {Join2(BasePath(<<"/", "a">>, ReMatch(EEGMI_URL)), FilePart(1, 4))}
Disks == {[ok |-> o, bad |-> b] :
              o \in SUBSET CachedBefore, b \in SUBSET CachedBefore}
\* the path an earlier session may have persisted
Configs == {NoPath, <<"/", "c">>}

NoCall ==
    /\ runs_arg = [iter |-> TRUE, val |-> <<>>] /\ subject = 0 /\ runs = <<>>
    /\ path_arg = NoPath /\ path = NoPath /\ force_update = FALSE
    /\ update_path = None /\ base_url = NoPath /\ base_path = NoPath
    /\ fetcher = NoFetcher /\ data_paths = <<>> /\ idx = 0
    /\ destination = NoPath /\ existed = FALSE /\ attempts = 0 /\ trace = <<>>
    /\ nupdates = 0 /\ cfg_prev = NoPath /\ wrote = FALSE /\ answer = None
    /\ disk0 = [ok |-> {}, bad |-> {}] /\ result = <<>> /\ err = None
    /\ repeat = FALSE /\ prev_result = <<>>

NoStd == ch_names = <<>> /\ ch_in = <<>> /\ rename = <<>> /\ std_done = "no"

Init ==
    /\ pc = "idle" /\ ncalls = 0
    /\ config \in Configs
    /\ disk \in {d \in Disks : d.ok \cap d.bad = {}}
    /\ NoCall /\ NoStd

\* ---------------------------------------------------------------- load_data
\* lines 158-186: up to the loop
Enter(s, r, p, f, u, url, rep, prev) ==
    LET match == ReMatch(url)
        root  == GetPath(p, config)
    IN  /\ ncalls' = ncalls + 1
        /\ runs_arg' = r /\ subject' = s /\ runs' = AsList(r)
        /\ path_arg' = p /\ path' = root
        /\ force_update' = f /\ update_path' = u /\ base_url' = url
        /\ repeat' = rep /\ prev_result' = prev
        /\ disk0' = disk
        /\ data_paths' = <<>> /\ destination' = NoPath /\ existed' = FALSE
        /\ attempts' = 0 /\ trace' = <<>> /\ nupdates' = 0 /\ cfg_prev' = NoPath
        /\ wrote' = FALSE /\ answer' = None /\ result' = <<>>
        /\ IF match = NoMatch
           THEN /\ pc' = "raised" /\ err' = "ValueError"
                /\ base_path' = NoPath /\ fetcher' = NoFetcher /\ idx' = 0
           ELSE /\ pc' = "for" /\ err' = None
                /\ base_path' = BasePath(root, match)
                /\ fetcher' = [created |-> TRUE, path |-> BasePath(root, match),
                               base_url |-> url,
                               retry_if_failed |-> RetryIfFailed,
                               registry |-> TRUE]
                /\ idx' = 1
        /\ UNCHANGED <<config, disk, stdvars>>

LoadData ==
    /\ pc = "idle" /\ ncalls = 0
    /\ \E s \in Subjects, r \in RunsArgs, p \in PathArgs, f \in BOOLEAN,
          u \in UpdateArgs, url \in Urls :
          Enter(s, r, p, f, u, url, FALSE, <<>>)

\* the caller invokes load_data again with the same arguments, force_update False
LoadAgain ==
    /\ pc = "returned" /\ ncalls < MaxCalls
    /\ Enter(subject, runs_arg, path_arg, FALSE, update_path, base_url, TRUE, result)

\* lines 187-191: the next run, or line 195
ForRun ==
    /\ pc = "for"
    /\ IF idx > Len(runs)
       THEN /\ pc' = "returned" /\ result' = data_paths
            /\ UNCHANGED <<disk, destination, existed, attempts, trace>>
       ELSE LET dest == Join2(base_path, FilePart(subject, runs[idx]))
            IN  /\ destination' = dest
                /\ existed' = isfile(disk, dest)
                /\ IF ShouldRemove(force_update, isfile(disk, dest))
                   THEN /\ disk' = [ok |-> disk.ok \ {dest}, bad |-> disk.bad \ {dest}]
                        /\ trace' = Append(trace, [op |-> "remove", file |-> dest])
                   ELSE UNCHANGED <<disk, trace>>
                /\ attempts' = 0
                /\ pc' = "fetch"
                /\ UNCHANGED result
    /\ UNCHANGED <<ncalls, config, runs_arg, subject, runs, path_arg, path,
                   force_update, update_path, base_url, base_path, fetcher,
                   data_paths, idx, nupdates, cfg_prev, wrote, answer, disk0, err,
                   repeat, prev_result, stdvars>>

\* fetcher.fetch(file_part): the file's path under the fetcher's directory
FetchTarget == Join2(fetcher.path, FilePart(subject, runs[idx]))

fetchframe == <<ncalls, config, runs_arg, subject, runs, path_arg, path,
                force_update, update_path, base_url, base_path, fetcher, idx,
                destination, existed, nupdates, cfg_prev, wrote, answer, disk0,
                result, repeat, prev_result, stdvars>>

\* line 192, fetcher.fetch: the file is on disk and checksum-valid, no download
FetchCached ==
    /\ pc = "fetch"
    /\ FetchTarget \in disk.ok
    /\ data_paths' = Append(data_paths, FetchTarget)
    /\ pc' = "update"
    /\ UNCHANGED <<disk, attempts, trace, err>>
    /\ UNCHANGED fetchframe

\* line 192, fetcher.fetch: the file on disk is not checksum-valid and the
\* fetcher raises instead of downloading it again.  (The source does not say
\* which of the two the fetcher does with such a file: FetchAttempt is the other.)
FetchStale ==
    /\ pc = "fetch"
    /\ FetchTarget \in disk.bad
    /\ attempts = 0
    /\ pc' = "raised"
    /\ err' = "IntegrityError"
    /\ UNCHANGED <<disk, attempts, trace, data_paths>>
    /\ UNCHANGED fetchframe

\* line 192, fetcher.fetch: one download attempt of a file that is missing or
\* not checksum-valid.  A downloaded file is verified before it replaces the
\* destination, so a failed attempt leaves the disk as it was.  The source
\* sets retry_if_failed and nothing else: whether the fetcher counts a checksum
\* mismatch as one more failed attempt or raises at once is left open (retry).
FetchAttempt ==
    /\ pc = "fetch"
    /\ FetchTarget \notin disk.ok
    /\ attempts < 1 + fetcher.retry_if_failed
    /\ \E o \in Outcomes, retry \in BOOLEAN :
          LET last == attempts + 1 = 1 + fetcher.retry_if_failed
          IN  /\ attempts' = attempts + 1
              /\ trace' = Append(trace, [op |-> "transfer", file |-> FetchTarget])
              /\ CASE o = "ok" ->
                        /\ disk' = [ok |-> disk.ok \cup {FetchTarget},
                                    bad |-> disk.bad \ {FetchTarget}]
                        /\ data_paths' = Append(data_paths, FetchTarget)
                        /\ pc' = "update"
                        /\ UNCHANGED err
                   [] o = "fail" ->
                        /\ pc' = IF last THEN "raised" ELSE "fetch"
                        /\ err' = IF last THEN "TransferError" ELSE err
                        /\ UNCHANGED <<disk, data_paths>>
                   [] o = "mismatch" ->
                        /\ pc' = IF last \/ ~retry THEN "raised" ELSE "fetch"
                        /\ err' = IF last \/ ~retry THEN "IntegrityError" ELSE err
                        /\ UNCHANGED <<disk, data_paths>>
    /\ UNCHANGED fetchframe

\* line 194, _do_path_update(path, update_path, config_key, name)
PathUpdate ==
    /\ pc = "update"
    /\ \E a \in Answers :
          LET target    == PersistArg(path, base_path)
              identical == config = target
              asked     == ~identical /\ update_path = None
              doit      == /\ ~identical
                           /\ \/ update_path = "True"
                              \/ update_path = None /\ a # "n"
          IN  /\ answer' = IF asked THEN a ELSE None
              /\ cfg_prev' = config
              /\ wrote' = doit
              /\ config' = IF doit THEN target ELSE config
    /\ nupdates' = nupdates + 1
    /\ idx' = idx + 1
    /\ pc' = "for"
    /\ UNCHANGED <<ncalls, disk, runs_arg, subject, runs, path_arg, path,
                   force_update, update_path, base_url, base_path, fetcher,
                   data_paths, destination, existed, attempts, trace, disk0,
                   result, err, repeat, prev_result, stdvars>>

\* load_data has returned or raised: control is back with the caller
Leave ==
    /\ pc \in {"returned", "raised"}
    /\ pc' = "idle"
    /\ runs_arg' = [iter |-> TRUE, val |-> <<>>] /\ subject' = 0 /\ runs' = <<>>
    /\ path_arg' = NoPath /\ path' = NoPath /\ force_update' = FALSE
    /\ update_path' = None /\ base_url' = NoPath /\ base_path' = NoPath
    /\ fetcher' = NoFetcher /\ data_paths' = <<>> /\ idx' = 0
    /\ destination' = NoPath /\ existed' = FALSE /\ attempts' = 0 /\ trace' = <<>>
    /\ nupdates' = 0 /\ cfg_prev' = NoPath /\ wrote' = FALSE /\ answer' = None
    /\ disk0' = [ok |-> {}, bad |-> {}] /\ result' = <<>> /\ err' = None
    /\ repeat' = FALSE /\ prev_result' = <<>>
    /\ UNCHANGED <<ncalls, config, disk, stdvars>>

Next == LoadData \/ LoadAgain \/ ForRun \/ FetchCached \/ FetchStale \/ FetchAttempt
        \/ PathUpdate \/ Leave

Spec == Init /\ [][Next]_vars

\* ---------------------------------------------------------------- standardize
Lower == <<"a", "b", "c", "d", "e", "f", "g", "h", "i", "j", "k", "l", "m", "n", "o", "p", "q", "r", "s", "t", "u", "v", "w", "x", "y", "z">>
Upper == <<"A", "B", "C", "D", "E", "F", "G", "H", "I", "J", "K", "L", "M", "N", "O", "P", "Q", "R", "S", "T", "U", "V", "W", "X", "Y", "Z">>

\* one character of str.upper()
UpperChar(c) ==
    IF \E i \in 1..Len(Lower) : Lower[i] = c
    THEN Upper[CHOOSE i \in 1..Len(Lower) : Lower[i] = c]
    ELSE c

\* str.upper()
ToUpper(s) == [i \in 1..Len(s) |-> UpperChar(s[i])]

RECURSIVE LStrip(_, _)
LStrip(s, c) == IF s # <<>> /\ Head(s) = c THEN LStrip(Tail(s), c) ELSE s

RECURSIVE RStrip(_, _)
RStrip(s, c) ==
    IF s # <<>> /\ s[Len(s)] = c THEN RStrip(SubSeq(s, 1, Len(s) - 1), c) ELSE s

\* str.strip(c)
Strip(s, c) == RStrip(LStrip(s, c), c)

\* lines 210-211
EndZ(s) == IF EndsWith(s, <<"Z">>) THEN SubSeq(s, 1, Len(s) - 1) \o <<"z">> ELSE s

\* lines 212-213
StartFp(s) == IF StartsWith(s, <<"F", "P">>) THEN <<"F", "p">> \o SubSeq(s, 3, Len(s)) ELSE s

\* lines 208-213: the standardized name
StdNameNoStrip(name) == StartFp(EndZ(ToUpper(name)))
StdName(name) == StartFp(EndZ(ToUpper(Strip(name, "."))))

Names == {<<"F", "p", "1", ".">>, <<"c", "z">>, <<"t", "7">>, <<"C", "z", ".", ".">>, <<"F", "p", "z", ".">>, <<"f", "p", "z">>, <<"A", "f", "z", ".">>,
          <<"A", "F", "3", ".">>, <<"Z">>, <<"f", "p">>, <<".", ".">>, <<"F", ".", "z">>}
\* channel names are unique within a recording
ChannelLists == {l \in UNION {[1..k -> Names] : k \in 0..MaxCh} :
                     \A i, j \in 1..Len(l) : i # j => l[i] # l[j]}

\* lines 206-215; raw.rename_channels raises when two channels get one name
Standardize ==
    /\ std_done = "no"
    /\ LET map == [n \in {ch_names[i] : i \in 1..Len(ch_names)} |-> StdName(n)]
           new == [i \in 1..Len(ch_names) |-> map[ch_names[i]]]
           dup == \E i, j \in 1..Len(new) : i # j /\ new[i] = new[j]
       IN  /\ rename' = map
           /\ ch_in' = ch_names
           /\ ch_names' = IF dup THEN ch_names ELSE new
           /\ std_done' = IF dup THEN "collision" ELSE "renamed"
    /\ UNCHANGED <<pc, ncalls, config, disk, callvars>>

InitStd ==
    /\ pc = "idle" /\ ncalls = 0 /\ config = NoPath
    /\ disk = [ok |-> {}, bad |-> {}]
    /\ NoCall
    /\ ch_names \in ChannelLists
    /\ ch_in = <<>> /\ rename = <<>> /\ std_done = "no"

NextStd == Standardize

SpecStd == InitStd /\ [][NextStd]_vars

\* ================================================================ properties
\* the digit of n at the decimal place p (1, 10, 100)
PlaceDigit(n, p) == DigitChar[((n \div p) % 10) + 1]

\* S<3 digits>/S<3 digits>R<2 digits>.edf, written out place by place
EdfName(s, r) ==
    << "S", PlaceDigit(s, 100), PlaceDigit(s, 10), PlaceDigit(s, 1), "/",
       "S", PlaceDigit(s, 100), PlaceDigit(s, 10), PlaceDigit(s, 1),
       "R", PlaceDigit(r, 10), PlaceDigit(r, 1), ".", "e", "d", "f" >>

\* C1: a call that returns gives one path per requested run, in the order of
\* the request, each local_dir/S{subject:03d}/S{subject:03d}R{run:02d}.edf; a
\* run requested twice appears twice and a non-iterable run gives one path.
C1_ReturnsOrderedPaths ==
    pc = "returned" =>
        IF runs_arg.iter
        THEN /\ Len(result) = Len(runs_arg.val)
             /\ \A i \in 1..Len(runs_arg.val) :
                    result[i] = base_path \o <<"/">> \o EdfName(subject, runs_arg.val[i])
        ELSE result = << base_path \o <<"/">> \o EdfName(subject, runs_arg.val) >>

C1_Witness ==
    /\ pc = "returned" /\ runs_arg.iter /\ subject = 1
    /\ runs_arg.val = <<14, 4>>
    /\ Len(result) = 2 /\ result[1] # result[2]

\* a version: digits '.' digits '.' digits
IsVersion(v) ==
    /\ Len(v) >= 5
    /\ \A k \in 1..Len(v) : v[k] \in Digit \cup {"."}
    /\ Cardinality({k \in 1..Len(v) : v[k] = "."}) = 2
    /\ v[1] # "." /\ v[Len(v)] # "."
    /\ \A k \in 1..(Len(v) - 1) : ~(v[k] = "." /\ v[k + 1] = ".")

\* the URL has files/eegmmidb/<v> after its scheme and host, v not followed by
\* a further digit
HasVersion(url, v) ==
    /\ IsVersion(v)
    /\ \/ StartsWith(url, <<"h", "t", "t", "p", ":", "/", "/">>)
       \/ StartsWith(url, <<"h", "t", "t", "p", "s", ":", "/", "/">>)
    /\ \E i \in 8..Len(url) :
          /\ StartsAt(url, i, <<"f", "i", "l", "e", "s", "/", "e", "e", "g", "m", "m", "i", "d", "b", "/">> \o v)
          /\ (url[5] = "s" => i >= 9)
          /\ LET e == i + Len(<<"f", "i", "l", "e", "s", "/", "e", "e", "g", "m", "m", "i", "d", "b", "/">>) + Len(v)
             IN  e <= Len(url) => url[e] \notin Digit

\* scheme + host + files/<dataset-name>/<version>
RequiredPattern(url) ==
    \E i \in 8..Len(url) :
        /\ StartsAt(url, i, <<"f", "i", "l", "e", "s", "/", "e", "e", "g", "m", "m", "i", "d", "b", "/">>)
        /\ \E e \in (i + 20)..(Len(url) + 1) :
              HasVersion(url, SubSeq(url, i + 15, e - 1))

\* C2: a base_url that does not match the pattern makes load_data raise the
\* configuration error with no fetcher created, no file fetched or deleted and
\* no call of the path-persistence step.
C2_BadUrlFailsFirst ==
    (pc # "idle" /\ ~RequiredPattern(base_url)) =>
        /\ pc = "raised" /\ err = "ValueError"
        /\ ~fetcher.created
        /\ trace = <<>> /\ disk = disk0
        /\ nupdates = 0 /\ data_paths = <<>>

C2_Witness ==
    /\ pc = "raised" /\ err = "ValueError"
    /\ base_url = <<"f", "t", "p", ":", "/", "/", "h", "/", "f", "i", "l", "e", "s", "/", "e", "e", "g", "m", "m", "i", "d", "b", "/", "1", ".", "0", ".", "0", "/">>

\* C4: a call that repeats a returned call with force_update False transfers
\* and deletes nothing, leaves the disk as it was and returns the same paths.
C4_RepeatIsNoOp ==
    repeat =>
        /\ pc # "raised"
        /\ trace = <<>>
        /\ disk = disk0
        /\ (pc = "returned" => result = prev_result)

C4_Witness ==
    /\ repeat /\ pc = "returned"
    /\ Len(result) = 2 /\ result[1] # result[2]

\* C5: under force_update a destination that exists is deleted before its
\* fetch begins, valid or not; the fetch then transfers that same file, and
\* the path it returns is the deleted path.
C5_ForcedUpdateDeletesFirst ==
    (force_update /\ existed /\ pc \in {"fetch", "update", "raised"}) =>
        LET n == Len(trace)
        IN  /\ n >= attempts + 1
            /\ trace[n - attempts] = [op |-> "remove", file |-> destination]
            /\ \A k \in (n - attempts + 1)..n :
                   trace[k] = [op |-> "transfer", file |-> destination]
            /\ (pc = "fetch" /\ attempts = 0 => ~isfile(disk, destination))
            /\ (pc \in {"update", "raised"} => attempts >= 1)
            /\ (pc = "update" => data_paths[Len(data_paths)] = destination)

C5_Witness ==
    /\ force_update /\ existed /\ pc = "update"
    /\ idx = 2 /\ Len(trace) = 4
    /\ data_paths[1] = destination
    /\ destination \in disk0.bad

\* C6: no fetch makes more than 3 transfer attempts; a transfer error is
\* raised only when 3 attempts were made, and when the third attempt fails
\* the call raises and the file is not among the returned paths.
C6_BoundedRetry ==
    /\ attempts <= 3
    /\ (pc = "fetch" => attempts < 3)
    /\ (err = "TransferError" => attempts = 3)
    /\ (attempts = 3 /\ destination \notin disk.ok) =>
           /\ pc = "raised"
           /\ err \in {"TransferError", "IntegrityError"}
           /\ result = <<>>
           /\ Len(data_paths) = idx - 1

C6_Witness ==
    /\ pc = "raised" /\ err = "TransferError" /\ attempts = 3
    /\ Len(trace) = 3

\* the files the call has touched stay among those of positions 1..idx
OnlyUpToCurrent ==
    LET mine == {data_paths[j] : j \in 1..Len(data_paths)} \cup {destination}
    IN  /\ \A k \in 1..Len(trace) : trace[k].file \in mine
        /\ \A f \in (disk.ok \cup disk.bad \cup disk0.ok \cup disk0.bad) \ mine :
               (f \in disk.ok <=> f \in disk0.ok) /\ (f \in disk.bad <=> f \in disk0.bad)

\* C7 as claimed: when the fetch of position k fails the call raises, returns
\* nothing, touches no later file, and every file of an earlier position is
\* still on disk and valid.
C7_Claimed ==
    (pc = "raised" /\ err # "ValueError") =>
        /\ result = <<>>
        /\ Len(data_paths) = idx - 1
        /\ OnlyUpToCurrent
        /\ \A j \in 1..(idx - 1) : data_paths[j] \in disk.ok

\* C7 amended: ... every file of an earlier position is still on disk and
\* valid, unless force_update is set and it is the file of position k itself,
\* which the k-th iteration deleted before its fetch failed.
C7_AbortKeepsEarlierFiles ==
    (pc = "raised" /\ err # "ValueError") =>
        /\ result = <<>>
        /\ Len(data_paths) = idx - 1
        /\ OnlyUpToCurrent
        /\ \A j \in 1..(idx - 1) :
               \/ data_paths[j] \in disk.ok
               \/ force_update /\ data_paths[j] = destination

C7_Witness ==
    /\ pc = "raised" /\ err = "TransferError" /\ idx = 2
    /\ data_paths[1] \in disk.ok /\ data_paths[1] \notin disk0.ok
    /\ data_paths[1] # destination

\* the version part of a cache directory laid out as root/folder/<mid>/version
VersionPart(mid) == SubSeq(base_path, Len(path \o <<"/">> \o Folder \o mid) + 1,
                           Len(base_path))

\* C8 as claimed: local_dir = cache_root/MNE-eegbci-data/<name>/<version>
C8_Claimed ==
    fetcher.created =>
        /\ StartsWith(base_path, path \o <<"/">> \o Folder \o <<"/", "e", "e", "g", "m", "m", "i", "d", "b", "/">>)
        /\ HasVersion(base_url, VersionPart(<<"/", "e", "e", "g", "m", "m", "i", "d", "b", "/">>))

\* C8 amended: local_dir = cache_root/MNE-eegbci-data/files/<name>/<version>,
\* name and version as they stand in the URL, and a file's local path is
\* local_dir/S{subject:03d}/S{subject:03d}R{run:02d}.edf: it is fixed by the
\* base URL, the cache root, the subject and the run.
C8_LocalDir ==
    fetcher.created =>
        /\ StartsWith(base_path, path \o <<"/">> \o Folder \o <<"/", "f", "i", "l", "e", "s", "/", "e", "e", "g", "m", "m", "i", "d", "b", "/">>)
        /\ HasVersion(base_url, VersionPart(<<"/", "f", "i", "l", "e", "s", "/", "e", "e", "g", "m", "m", "i", "d", "b", "/">>))
        /\ (base_url = EEGMI_URL =>
               base_path = path \o <<"/", "M", "N", "E", "-", "e", "e", "g", "b", "c", "i", "-", "d", "a", "t", "a", "/", "f", "i", "l", "e", "s", "/", "e", "e", "g", "m", "m", "i", "d", "b", "/", "1", ".", "0", ".", "0">>)
        /\ (pc \in {"fetch", "update"} =>
               destination = base_path \o <<"/">> \o EdfName(subject, runs[idx]))

C8_Witness ==
    /\ pc = "fetch" /\ subject = 109 /\ runs[idx] = 4
    /\ path = <<"/", "h", "/", "m", "n", "e", "_", "d", "a", "t", "a">>
    /\ base_url # EEGMI_URL

\* C9: _do_path_update has been called once for every fetch that returned, and
\* never for one that has not; a call of it that finds the path already stored,
\* or that is not asked to store it, does not write the configuration store.
C9_PathUpdatePerFetch ==
    /\ (pc # "update" => nupdates = Len(data_paths))
    /\ (pc = "update" => nupdates = Len(data_paths) - 1)
    /\ (nupdates > 0 /\ (cfg_prev = path \/ update_path = "False" \/ answer = "n")) =>
           (~wrote /\ config = cfg_prev)

C9_Witness ==
    /\ pc = "for" /\ nupdates = 2 /\ update_path = "True"
    /\ cfg_prev = path /\ ~wrote

\* the name without its leading and trailing periods, as a slice
Core(n) ==
    LET keep == {k \in 1..Len(n) : n[k] # "."}
    IN  IF keep = {} THEN <<>>
        ELSE SubSeq(n, CHOOSE a \in keep : \A k \in keep : a <= k,
                       CHOOSE b \in keep : \A k \in keep : b >= k)

\* C10: the mapping has exactly the original names as keys, and each value is
\* the name without leading/trailing periods, upper-cased, with a final Z
\* written z and a leading FP written Fp.
C10_StandardizeMapping ==
    std_done # "no" =>
        /\ DOMAIN rename = {ch_in[i] : i \in 1..Len(ch_in)}
        /\ Cardinality(DOMAIN rename) = Len(ch_in)
        /\ \A n \in DOMAIN rename :
               LET c == Core(n)
                   v == rename[n]
               IN  /\ Len(v) = Len(c)
                   /\ \A k \in 1..Len(c) :
                          v[k] = IF k = Len(c) /\ UpperChar(c[k]) = "Z" THEN "z"
                                 ELSE IF /\ k = 2
                                         /\ UpperChar(c[1]) = "F"
                                         /\ UpperChar(c[2]) = "P" THEN "p"
                                 ELSE UpperChar(c[k])
        /\ (<<"F", "p", "1", ".">> \in DOMAIN rename => rename[<<"F", "p", "1", ".">>] = <<"F", "p", "1">>)
        /\ (<<"c", "z">> \in DOMAIN rename => rename[<<"c", "z">>] = <<"C", "z">>)
        /\ (<<"t", "7">> \in DOMAIN rename => rename[<<"t", "7">>] = <<"T", "7">>)

C10_Witness ==
    /\ std_done = "collision"
    /\ ch_in = << <<"c", "z">>, <<"C", "z", ".", ".">> >>
    /\ rename[<<"c", "z">>] = rename[<<"C", "z", ".", ".">>]
====
